---- MODULE Spec2Model ----
(***************************************************************************)
(* Model of art/attacks/attack.py: the abstract base class Attack.          *)
(*                                                                         *)
(* One Attack instance is modelled.  Python objects are heap addresses     *)
(* (integers): 1..NumValues are objects handed in by callers (classifiers, *)
(* parameter values, inputs), the address above NumValues is that of the  *)
(* Progbar object that start_progress_bar creates.  The instance's         *)
(* __dict__ is the function self from attribute names to addresses.        *)
(***************************************************************************)
EXTENDS Integers, Sequences, FiniteSets, TLC

\* ---- bounds of the model ------------------------------------------------
NumValues == 2   \* distinct caller-supplied objects
MaxStep   == 2   \* largest target / current step handed to the reporter
MaxKwargs == 2   \* keywords in one set_params call

Values   == 1..NumValues
Targets  == 1..MaxStep
Currents == 0..MaxStep

\* Keyword names a caller may pass: the declared ones, a superfluous one,
\* and the names of the two attributes the class itself relies on.
Keys == {"classifier", "eps", "foo", "prog_bar", "attack_params"}

\* A **kwargs dict: a function from its (distinct) keys to their values.
Kwargs ==
  UNION { [S -> Values] : S \in { T \in SUBSET Keys : Cardinality(T) <= MaxKwargs } }

\* kwargs.items() yields the keys present in the dict, in the order the
\* caller wrote them; one order is modelled, that of KeyOrder.
KeyOrder == <<"classifier", "eps", "foo", "prog_bar", "attack_params">>

\* The keyword dicts handed to generate: none, or an attack-specific one.
GenerateKwargs == { kw \in Kwargs : DOMAIN kw \subseteq {"eps"} }

Range(s) == { s[i] : i \in 1..Len(s) }

\* Allow-lists: the base class's own, and the one of a concrete variant
\* (declared as Attack.attack_params + ['eps']).
BaseParams == <<"classifier">>

VariantParams == BaseParams \o <<"eps">>

AllowLists == {BaseParams, VariantParams}

\* The one heap slot a live Progbar occupies: the instance holds the only
\* reference to its reporter, so the previous one is freed when prog_bar
\* is rebound.
BarAddress == NumValues + 1

VARIABLES
  self,           \* instance __dict__ : attribute name -> address
  attack_params,  \* class attribute of the instance's class
  progbars,       \* heap of Progbar objects : address -> [target, seen]
  op,             \* the last call made on the instance
  kwkeys,         \* the keyword names of that call
  arg,            \* its positional argument (classifier, x, target,
                  \* current), 0 if none
  err,            \* the error it raised, "none" if it returned
  ret,            \* what it returned, "no_return" if it raised
  lastWrite,      \* history: per declared name, the value supplied by the
                  \* most recent set_params call naming it; before any such
                  \* call the value after construction (0: no attribute)
  lastTarget      \* history: the target of the most recent
                  \* start_progress_bar call, 0 before the first

vars == <<self, attack_params, progbars, op, kwkeys, arg, err, ret,
          lastWrite, lastTarget>>

\* ---- attribute access ---------------------------------------------------
hasattr(obj, name) == name \in DOMAIN obj

\* Variant: the assignment replaces the whole __dict__.
setattr_replace(obj, name, value) == [n \in {name} |-> value]

setattr(obj, name, value) ==
  [n \in DOMAIN obj \cup {name} |-> IF n = name THEN value ELSE obj[n]]

\* Variant: the membership test accepts every key.
key_in_attack_params_always(obj, key) ==
  IF hasattr(obj, "attack_params") THEN "TypeError" ELSE "yes"

\* `key in self.attack_params`: attribute lookup finds an instance
\* attribute before the class attribute; a caller-supplied object is not a
\* container, so membership in it raises TypeError.
key_in_attack_params(obj, key) ==
  IF hasattr(obj, "attack_params") THEN "TypeError"
  ELSE IF \E j \in DOMAIN attack_params : attack_params[j] = key
       THEN "yes" ELSE "no"

\* ---- __init__ -----------------------------------------------------------
\* Variant: the constructor stores a copy, another object than the one given.
init_copies(classifier) ==
  [n \in {"classifier"} |-> (classifier % NumValues) + 1]

init(classifier) == [n \in {"classifier"} |-> classifier]

Init ==
  /\ \E classifier \in Values :
        /\ self = init(classifier)
        /\ arg = classifier
  /\ attack_params \in AllowLists
  /\ progbars = <<>>
  /\ op = "__init__"
  /\ kwkeys = {}
  /\ err = "none"
  /\ ret = "None"
  /\ lastWrite = [n \in Range(attack_params) |->
                    IF n \in DOMAIN self THEN self[n] ELSE 0]
  /\ lastTarget = 0

\* ---- generate -----------------------------------------------------------
\* Variant: generate hands its input back.
generate_outcome_returns(x, kw) == [err |-> "none", ret |-> "x"]

generate_outcome(x, kw) == [err |-> "NotImplementedError", ret |-> "no_return"]

generate(x, kw) ==
  /\ op' = "generate"
  /\ kwkeys' = DOMAIN kw
  /\ arg' = x
  /\ err' = generate_outcome(x, kw).err
  /\ ret' = generate_outcome(x, kw).ret
  /\ UNCHANGED <<self, attack_params, progbars, lastWrite, lastTarget>>

\* ---- progress bar -------------------------------------------------------
\* Progbar(target, ...): a new object, at step 0 of target.  The display
\* arguments (width, verbose, interval, stateful_metrics) are handed on
\* unchanged and are not tracked.
Progbar(target) == [target |-> target, seen |-> 0]

\* Variant: the reporter is bound under another name.
bind_prog_bar_misnamed(obj, bar) == setattr(obj, "progress_bar", bar)

\* self.prog_bar = <the new Progbar>
bind_prog_bar(obj, bar) == setattr(obj, "prog_bar", bar)

start_progress_bar(target) ==
  /\ progbars' = [a \in {BarAddress} |-> Progbar(target)]
  /\ self' = bind_prog_bar(self, BarAddress)
  /\ op' = "start_progress_bar"
  /\ kwkeys' = {}
  /\ arg' = target
  /\ err' = "none"
  /\ ret' = "None"
  /\ lastTarget' = target
  /\ UNCHANGED <<attack_params, lastWrite>>

\* self.prog_bar.update: the object the call is delegated to, 0 when the
\* lookup raises AttributeError (no prog_bar attribute, or an object that
\* is no Progbar).
reporter(obj) ==
  IF hasattr(obj, "prog_bar") /\ obj["prog_bar"] \in DOMAIN progbars
  THEN obj["prog_bar"] ELSE 0

\* Variant: a missing reporter is passed over in silence.
update_outcome_silent(obj) == "none"

update_outcome(obj) == IF reporter(obj) = 0 THEN "AttributeError" ELSE "none"

\* Progbar.update(current, values): the reporter records the step.
update_progress_bar(current) ==
  /\ op' = "update_progress_bar"
  /\ kwkeys' = {}
  /\ arg' = current
  /\ err' = update_outcome(self)
  /\ ret' = IF update_outcome(self) = "none" THEN "None" ELSE "no_return"
  /\ progbars' = IF reporter(self) = 0 THEN progbars
                 ELSE [progbars EXCEPT ![reporter(self)].seen = current]
  /\ UNCHANGED <<self, attack_params, lastWrite, lastTarget>>

\* ---- set_params ---------------------------------------------------------
\* Variant: every key is assigned, declared or not.
set_params_item_all(obj, key, value) == setattr(obj, key, value)

\* Variant: a declared attribute is assigned only while it does not exist.
set_params_item_first(obj, key, value) ==
  IF key_in_attack_params(obj, key) = "yes" /\ ~hasattr(obj, key)
  THEN setattr(obj, key, value)
  ELSE obj

\* One iteration of the loop whose membership test raised nothing: the
\* test's outcome and the setattr.
set_params_item(obj, key, value) ==
  IF key_in_attack_params(obj, key) = "yes" THEN setattr(obj, key, value)
  ELSE obj

\* The loop over kwargs.items(), from position i of the iteration order on;
\* an error raised by an iteration ends the call.
RECURSIVE set_params_loop(_, _, _)
set_params_loop(obj, kw, i) ==
  IF i > Len(KeyOrder) THEN [attrs |-> obj, err |-> "none"]
  ELSE IF KeyOrder[i] \notin DOMAIN kw THEN set_params_loop(obj, kw, i + 1)
  ELSE IF key_in_attack_params(obj, KeyOrder[i]) = "TypeError"
       THEN [attrs |-> obj, err |-> "TypeError"]
       ELSE set_params_loop(set_params_item(obj, KeyOrder[i], kw[KeyOrder[i]]),
                            kw, i + 1)

\* Variant: the return statement is missing.
set_params_returns_none(e) == IF e = "none" THEN "None" ELSE "no_return"

set_params_returns(e) == IF e = "none" THEN "True" ELSE "no_return"

set_params(kw) ==
  /\ \E r \in {set_params_loop(self, kw, 1)} :
        /\ self' = r.attrs
        /\ err' = r.err
        /\ ret' = set_params_returns(r.err)
  /\ op' = "set_params"
  /\ kwkeys' = DOMAIN kw
  /\ arg' = 0
  /\ lastWrite' = [n \in DOMAIN lastWrite |->
                     IF n \in DOMAIN kw THEN kw[n] ELSE lastWrite[n]]
  /\ UNCHANGED <<attack_params, progbars, lastTarget>>

\* ---- specification ------------------------------------------------------
Next ==
  \/ \E x \in Values, kw \in GenerateKwargs : generate(x, kw)
  \/ \E target \in Targets : start_progress_bar(target)
  \/ \E current \in Currents : update_progress_bar(current)
  \/ \E kw \in Kwargs : set_params(kw)

Spec == Init /\ [][Next]_vars

\* ---- properties ---------------------------------------------------------
Declared == Range(attack_params)

\* Attribute `name` is the same in both objects: absent in both, or bound
\* to the same object.
SameAttr(a, b, name) ==
  /\ hasattr(a, name) <=> hasattr(b, name)
  /\ hasattr(a, name) => a[name] = b[name]

AllNames(a, b) == Keys \cup DOMAIN a \cup DOMAIN b

\* C1: a set_params call assigns exactly the attributes named both in its
\* keywords and in attack_params, each to the supplied value; every other
\* attribute, and so every undeclared keyword, is left as it was (none is
\* created).
C1_SetParamsAssignsAllowed ==
  [][op' = "set_params" =>
       \A n \in AllNames(self, self') :
          IF n \in kwkeys' /\ n \in Declared
          THEN hasattr(self', n) /\ self'[n] = lastWrite'[n]
          ELSE SameAttr(self, self', n)]_vars

C1_Witness ==
  /\ op = "set_params"
  /\ attack_params = VariantParams
  /\ kwkeys = {"eps", "foo"}
  /\ hasattr(self, "eps") /\ self["eps"] = 2
  /\ ~hasattr(self, "foo")
  /\ ret = "True"

\* C2: set_params raises nothing and returns True, whatever its keywords.
C2_SetParamsNeverFails ==
  op = "set_params" => err = "none" /\ ret = "True"

C2_Witness ==
  /\ op = "set_params"
  /\ kwkeys = {"foo", "attack_params"}
  /\ err = "none"
  /\ ret = "True"

\* C3: generate raises NotImplementedError and returns nothing, for every
\* input, in every state of the instance.
C3_GenerateNotImplemented ==
  op = "generate" => err = "NotImplementedError" /\ ret = "no_return"

C3_Witness ==
  /\ op = "generate"
  /\ err = "NotImplementedError"
  /\ hasattr(self, "prog_bar")
  /\ hasattr(self, "eps")
  /\ kwkeys = {"eps"}

\* C4: the allow-list the instance sees (no instance attribute shadows the
\* class attribute) always contains "classifier".
C4_AllowListHasClassifier ==
  /\ ~hasattr(self, "attack_params")
  /\ "classifier" \in Range(attack_params)

C4_Witness ==
  /\ op = "set_params"
  /\ "attack_params" \in kwkeys
  /\ "classifier" \in Range(attack_params)
  /\ hasattr(self, "prog_bar")

\* C5, as claimed: every instance attribute is named in attack_params, and
\* no operation but set_params adds or changes an attribute.
C5_OnlyDeclaredAttributes ==
  [][/\ DOMAIN self' \subseteq Declared
     /\ op' # "set_params" => self' = self]_vars

\* C5, amended: every instance attribute is named in attack_params or is
\* prog_bar; generate and update_progress_bar add or change no attribute,
\* and start_progress_bar binds prog_bar and touches no other attribute.
C5_AttributesDeclaredOrProgBar ==
  [][/\ DOMAIN self' \subseteq Declared \cup {"prog_bar"}
     /\ op' \in {"generate", "update_progress_bar"} => self' = self
     /\ op' = "start_progress_bar" =>
          /\ hasattr(self', "prog_bar")
          /\ \A n \in AllNames(self, self') \ {"prog_bar"} :
                SameAttr(self, self', n)]_vars

C5_Witness ==
  /\ op = "start_progress_bar"
  /\ DOMAIN self = {"classifier", "eps", "prog_bar"}

\* C6, as claimed: the classifier attribute is the object given to the
\* constructor, and is that same object after any operation.
C6_ClassifierNeverRebound ==
  /\ [](op = "__init__" =>
          hasattr(self, "classifier") /\ self["classifier"] = arg)
  /\ [][SameAttr(self, self', "classifier")]_vars

\* C6, amended: after construction the classifier attribute is the object
\* given, and it stays the same object over every operation but a
\* set_params call whose keywords name classifier, which binds the
\* supplied object.
C6_ClassifierReboundOnlyBySetParams ==
  /\ [](op = "__init__" =>
          hasattr(self, "classifier") /\ self["classifier"] = arg)
  /\ [][/\ hasattr(self', "classifier")
        /\ ~(op' = "set_params" /\ "classifier" \in kwkeys') =>
              SameAttr(self, self', "classifier")
        /\ (op' = "set_params" /\ "classifier" \in kwkeys') =>
              self'["classifier"] = lastWrite'["classifier"]]_vars

C6_Witness ==
  /\ op = "set_params"
  /\ kwkeys = {"eps", "prog_bar"}
  /\ hasattr(self, "prog_bar")
  /\ progbars[self["prog_bar"]].seen = 2
  /\ self["classifier"] = 1

\* C7: once start_progress_bar has been called, an update_progress_bar
\* call raises nothing and reaches the reporter of the most recent
\* start_progress_bar, which then stands at step `current` of its target.
C7_UpdateReachesLatestReporter ==
  (op = "update_progress_bar" /\ lastTarget # 0) =>
     /\ err = "none"
     /\ reporter(self) # 0
     /\ progbars[reporter(self)] = [target |-> lastTarget, seen |-> arg]

C7_Witness ==
  /\ op = "update_progress_bar"
  /\ lastTarget = 2
  /\ arg = 1
  /\ err = "none"
  /\ progbars[self["prog_bar"]] = [target |-> 2, seen |-> 1]

\* C8: update_progress_bar before any start_progress_bar raises an error
\* and changes nothing of the instance; after a start_progress_bar it
\* succeeds.
C8_UpdateBeforeStartFails ==
  [][op' = "update_progress_bar" =>
       IF lastTarget = 0
       THEN /\ err' = "AttributeError"
            /\ ret' = "no_return"
            /\ self' = self
            /\ progbars' = progbars
            /\ attack_params' = attack_params
       ELSE err' = "none"]_vars

C8_Witness ==
  /\ op = "update_progress_bar"
  /\ err = "AttributeError"
  /\ lastTarget = 0
  /\ ~hasattr(self, "prog_bar")
  /\ hasattr(self, "eps")

\* The keyword dicts the last set_params call may have been made with: its
\* keys are kwkeys, its values for the declared names are those recorded.
LastKwargs ==
  { kw \in [kwkeys -> Values] :
      \A n \in kwkeys \cap DOMAIN lastWrite : kw[n] = lastWrite[n] }

\* C9: every declared attribute holds the value of the most recent
\* set_params call naming it, or what it was after construction when no
\* call named it; and repeating a set_params call changes nothing.
C9_LastWriteWinsIdempotent ==
  /\ \A n \in Declared :
        IF lastWrite[n] = 0 THEN ~hasattr(self, n)
        ELSE hasattr(self, n) /\ self[n] = lastWrite[n]
  /\ op = "set_params" =>
        \A kw \in LastKwargs :
           set_params_loop(self, kw, 1) = [attrs |-> self, err |-> "none"]

C9_Witness ==
  /\ op = "set_params"
  /\ kwkeys = {"eps"}
  /\ hasattr(self, "eps") /\ self["eps"] = 1
  /\ lastWrite = [n \in Declared |-> 1]

\* C10: generate, start_progress_bar and update_progress_bar leave the
\* classifier, the allow-list and every declared attribute as they were;
\* set_params with keywords among the base allow-list leaves the prog_bar
\* attribute and the reporter as they were.
C10_Frame ==
  [][/\ op' \in {"generate", "start_progress_bar", "update_progress_bar"} =>
          /\ attack_params' = attack_params
          /\ \A n \in Declared \cup {"classifier", "attack_params"} :
                SameAttr(self, self', n)
     /\ (op' = "set_params" /\ kwkeys' \subseteq Range(BaseParams)) =>
          /\ SameAttr(self, self', "prog_bar")
          /\ progbars' = progbars]_vars

C10_Witness ==
  /\ op = "set_params"
  /\ kwkeys = {"classifier"}
  /\ self["classifier"] = 2
  /\ hasattr(self, "prog_bar")
  /\ progbars[self["prog_bar"]].seen = 1

====
